---- MODULE Spec2Model ----
(***************************************************************************)
(* Model of qiling/debugger/gdb/client_scripts/snapshots.py: the GDB       *)
(* client commands "snapshot create|restore|save|load|info|delete", which  *)
(* drive the remote snapshot protocol through gdb.execute("monitor ...").  *)
(*                                                                         *)
(* A Python str is a sequence of one-character strings, a bytes object a   *)
(* sequence of integers 0..255.  Every call of snapshot_cmd is one step of *)
(* the model: the command is appended to `sent`, the reply (chosen by the  *)
(* remote side, i.e. nondeterministically) to `recv`.                      *)
(***************************************************************************)
EXTENDS Integers, Sequences, FiniteSets, TLC

VARIABLES
    pc,         \* position of the running handler; "prompt" between commands
    op,         \* the gdb command last invoked
    argv,       \* gdb.string_to_argv(args) of that invocation
    sent,       \* strings passed to gdb.execute during that invocation
    recv,       \* the replies gdb.execute returned, in order
    outcome,    \* "running", or how the handler ended (exception raised or none)
    out,        \* what the handler wrote with gdb.write
    snap_data,  \* load: the bytes read from the snapshot file
    idx,        \* load: the loop variable i of the state:cont loop
    file,       \* save: the output file as the handler left it
    calls,      \* the int() and bytes.fromhex() calls made on replies, in order
    remote,     \* the remote side: its snapshots and the bytes of a load in progress
    disk,       \* the snapshot files written so far, by path
    hist        \* what earlier commands of the session did (history)

vars == <<pc, op, argv, sent, recv, outcome, out, snap_data, idx, file, calls,
          remote, disk, hist>>

---------------------------------------------------------------------------
(* String literals of the script, as character sequences.                  *)

MONITOR == <<"m","o","n","i","t","o","r"," ","s","n","a","p","s","h","o","t",";">>
SNAPSHOT_ERR == <<"S","N","A","P","S","H","O","T"," ","E","R","R">>
S_info == <<"i","n","f","o">>
S_create == <<"c","r","e","a","t","e">>
S_create_name == <<"c","r","e","a","t","e",";","n","a","m","e",":">>
S_restore_name == <<"r","e","s","t","o","r","e",";","n","a","m","e",":">>
S_save_name == <<"s","a","v","e",";","n","a","m","e",":">>
S_load_data == <<"l","o","a","d",";","d","a","t","a",":">>
S_state_start == <<";","s","t","a","t","e",":","s","t","a","r","t">>
S_state_cont == <<";","s","t","a","t","e",":","c","o","n","t">>
S_load_done == <<"l","o","a","d",";","s","t","a","t","e",":","d","o","n","e">>
S_name_field == <<";","n","a","m","e",":">>
S_dot_slash == <<".","/">>
S_qsp == <<".","q","s","p">>

HexDigits == <<"0","1","2","3","4","5","6","7","8","9","a","b","c","d","e","f">>
UpperHex == <<"0","1","2","3","4","5","6","7","8","9","A","B","C","D","E","F">>

\* The chunk size of the load protocol: the literal 1024 of lines 121..131.
ChunkSize == 1024

---------------------------------------------------------------------------
(* Python built-ins the script relies on.                                  *)

\* `sub in s` for str
Contains(s, sub) ==
    \E k \in 0..(Len(s) - Len(sub)) : SubSeq(s, k + 1, k + Len(sub)) = sub

\* str.isspace() of one character (the ASCII whitespace of int() and fromhex())
IsSpace(c) == c \in {" ", "\n", "\t", "\r", "\f"}

\* the k-th smallest element of a finite set of integers, k in 1..Cardinality(S)
Nth(S, k) == CHOOSE p \in S : Cardinality({q \in S : q < p}) = k - 1

\* s.split(sep) for a one-character separator: always at least one piece
Split(s, sep) ==
    LET P == {k \in 1..Len(s) : s[k] = sep}
        n == Cardinality(P)
        cut(k) == IF k = 0 THEN 0 ELSE IF k = n + 1 THEN Len(s) + 1 ELSE Nth(P, k)
    IN  [k \in 1..(n + 1) |-> SubSeq(s, cut(k - 1) + 1, cut(k) - 1)]

\* [x for x in s.splitlines() if x]: the non-empty lines of s
NonEmptyLines(s) == SelectSeq(Split(s, "\n"), LAMBDA x : x # <<>>)

\* s.strip() as int() applies it
Strip(s) ==
    LET K == {k \in 1..Len(s) : ~IsSpace(s[k])}
    IN  IF K = {} THEN <<>>
        ELSE SubSeq(s, CHOOSE a \in K : \A b \in K : a <= b,
                       CHOOSE a \in K : \A b \in K : a >= b)

\* the value of one digit character in the given base, -1 when it is none
DigitVal(c, base) ==
    LET V == {v \in 0..(base - 1) : HexDigits[v + 1] = c \/ UpperHex[v + 1] = c}
    IN  IF V = {} THEN -1 ELSE CHOOSE v \in V : TRUE

RECURSIVE DigitsValue(_, _, _)
\* the number written by the digits of s (underscores skipped), acc so far
DigitsValue(s, base, acc) ==
    IF s = <<>> THEN acc
    ELSE IF Head(s) = "_" THEN DigitsValue(Tail(s), base, acc)
    ELSE DigitsValue(Tail(s), base, acc * base + DigitVal(Head(s), base))

\* whether s is a digit string int() accepts: digits of the base, with single
\* underscores between digits only
ValidDigits(s, base) ==
    /\ s # <<>>
    /\ s[1] # "_"
    /\ s[Len(s)] # "_"
    /\ \A k \in 1..Len(s) : s[k] = "_" \/ DigitVal(s[k], base) >= 0
    /\ \A k \in 1..(Len(s) - 1) : ~(s[k] = "_" /\ s[k + 1] = "_")

\* int(s, base) for base 10 and 16: [ok |-> FALSE] stands for ValueError
PyInt(s, base) ==
    LET t == Strip(s)
        neg == t # <<>> /\ t[1] = "-"
        u == IF t # <<>> /\ t[1] \in {"+", "-"} THEN Tail(t) ELSE t
        pre == base = 16 /\ Len(u) >= 2 /\ u[1] = "0" /\ u[2] \in {"x", "X"}
        v == IF pre THEN SubSeq(u, 3, Len(u)) ELSE u
        \* after a base prefix one leading underscore is allowed
        w == IF pre /\ v # <<>> /\ v[1] = "_" THEN Tail(v) ELSE v
    IN  IF ValidDigits(w, base)
        THEN [ok |-> TRUE, val |-> (IF neg THEN -1 ELSE 1) * DigitsValue(w, base, 0)]
        ELSE [ok |-> FALSE, val |-> 0]

\* bytes.hex(): two lowercase hex digits per byte
Hex(b) ==
    [k \in 1..(2 * Len(b)) |->
        IF k % 2 = 1 THEN HexDigits[(b[(k + 1) \div 2] \div 16) + 1]
        ELSE HexDigits[(b[k \div 2] % 16) + 1]]

RECURSIVE FromHexFrom(_, _, _)
\* bytes.fromhex from position k on, acc the bytes decoded so far
FromHexFrom(s, k, acc) ==
    IF k > Len(s) THEN [ok |-> TRUE, val |-> acc]
    ELSE IF IsSpace(s[k]) THEN FromHexFrom(s, k + 1, acc)
    ELSE IF k + 1 > Len(s) \/ DigitVal(s[k], 16) < 0 \/ DigitVal(s[k + 1], 16) < 0
    THEN [ok |-> FALSE, val |-> <<>>]
    ELSE FromHexFrom(s, k + 2,
                     Append(acc, 16 * DigitVal(s[k], 16) + DigitVal(s[k + 1], 16)))

\* bytes.fromhex of a string without whitespace: pairs of hex digits
FromHexPlain(s) ==
    IF Len(s) % 2 = 0 /\ \A k \in 1..Len(s) : DigitVal(s[k], 16) >= 0
    THEN [ok |-> TRUE,
          val |-> [j \in 1..(Len(s) \div 2) |->
                      16 * DigitVal(s[2 * j - 1], 16) + DigitVal(s[2 * j], 16)]]
    ELSE [ok |-> FALSE, val |-> <<>>]

\* bytes.fromhex(s): whitespace is skipped between bytes; [ok |-> FALSE] stands
\* for ValueError
FromHex(s) ==
    IF \E k \in 1..Len(s) : IsSpace(s[k]) THEN FromHexFrom(s, 1, <<>>) ELSE FromHexPlain(s)

\* b[i:j] for 0 <= i <= j (Python slicing clamps j to len(b))
Slice(b, i, j) == SubSeq(b, i + 1, IF j < Len(b) THEN j ELSE Len(b))

\* os.path.dirname for POSIX paths: the part before the last '/', with
\* trailing slashes removed unless it consists of slashes only
Dirname(p) ==
    LET P == {k \in 1..Len(p) : p[k] = "/"}
        last == IF P = {} THEN 0 ELSE CHOOSE a \in P : \A b \in P : a >= b
        head == SubSeq(p, 1, last)
        K == {k \in 1..Len(head) : head[k] # "/"}
    IN  IF K = {} THEN head
        ELSE SubSeq(head, 1, CHOOSE a \in K : \A b \in K : a >= b)

---------------------------------------------------------------------------
(* A Python dict, kept as the sequence of its <<key, value>> pairs in        *)
(* insertion order.                                                           *)

\* `k in d`
DictHas(d, k) == \E j \in 1..Len(d) : d[j][1] = k

\* mutant of DictPut: an existing key keeps its first value
DictPut_first(d, k, v) == IF DictHas(d, k) THEN d ELSE Append(d, <<k, v>>)

\* d[k] = v: an existing key keeps its place and takes the new value
DictPut(d, k, v) ==
    IF DictHas(d, k)
    THEN [j \in 1..Len(d) |-> IF d[j][1] = k THEN <<k, v>> ELSE d[j]]
    ELSE Append(d, <<k, v>>)

RECURSIVE DictFrom(_, _)
\* {x: int(v, 16) for x, v in items}, for items that unpack and parse
DictFrom(items, acc) ==
    IF items = <<>> THEN acc
    ELSE DictFrom(Tail(items),
                  DictPut(acc, Head(items)[1], PyInt(Head(items)[2], 16).val))

---------------------------------------------------------------------------
(* The module-level functions.                                             *)

Min2(a, b) == IF a < b THEN a ELSE b

\* snapshot_cmd: the string handed to gdb.execute
snapshot_cmd(cmd) == MONITOR \o cmd

\* mutant of get_snapshots_info: records that do not unpack or parse are skipped
get_snapshots_info_skip(ret_info) ==
    LET lines == NonEmptyLines(ret_info)
        ret_snaps == [k \in 1..Len(lines) |-> Split(lines[k], ":")]
        kept == SelectSeq(ret_snaps, LAMBDA x : Len(x) = 2 /\ PyInt(x[2], 16).ok)
    IN  [ok |-> TRUE, val |-> DictFrom(kept, <<>>)]

\* mutant of get_snapshots_info: only the first record is read
get_snapshots_info_head(ret_info) ==
    LET lines == NonEmptyLines(ret_info)
        ret_snaps == [k \in 1..Len(lines) |-> Split(lines[k], ":")]
        good == \A k \in 1..Len(ret_snaps) :
                    /\ Len(ret_snaps[k]) = 2
                    /\ PyInt(ret_snaps[k][2], 16).ok
    IN  IF good THEN [ok |-> TRUE, val |-> DictFrom(SubSeq(ret_snaps, 1, Min2(1, Len(ret_snaps))), <<>>)]
        ELSE [ok |-> FALSE, val |-> <<>>]

\* get_snapshots_info on the reply ret_info to 'info': [ok |-> FALSE] stands
\* for the ValueError of a record that does not unpack into two parts or whose
\* offset int(v, 16) rejects
get_snapshots_info(ret_info) ==
    LET lines == NonEmptyLines(ret_info)
        ret_snaps == [k \in 1..Len(lines) |-> Split(lines[k], ":")]
        good == \A k \in 1..Len(ret_snaps) :
                    /\ Len(ret_snaps[k]) = 2
                    /\ PyInt(ret_snaps[k][2], 16).ok
    IN  IF good THEN [ok |-> TRUE, val |-> DictFrom(ret_snaps, <<>>)]
        ELSE [ok |-> FALSE, val |-> <<>>]

\* hex(n) of Python: '0x..' with a leading '-' for negatives
RECURSIVE HexNat(_)
HexNat(n) == IF n < 16 THEN <<HexDigits[n + 1]>>
             ELSE Append(HexNat(n \div 16), HexDigits[(n % 16) + 1])

PyHex(n) == IF n < 0 THEN <<"-", "0", "x">> \o HexNat(-n) ELSE <<"0", "x">> \o HexNat(n)

---------------------------------------------------------------------------
(* Handler outcomes and console output.                                    *)

Running == [exc |-> "running", msg |-> ""]
Returned == [exc |-> "none", msg |-> ""]
GdbError(m) == [exc |-> "GdbError", msg |-> m]
ValueError == [exc |-> "ValueError", msg |-> ""]
IndexError == [exc |-> "IndexError", msg |-> ""]
OSError == [exc |-> "OSError", msg |-> ""]

\* one gdb.write call: the message template and the values interpolated in it
Written(m, args) == [msg |-> m, arg |-> args]

NoFile == [path |-> <<>>, open |-> FALSE, data |-> <<>>]

---------------------------------------------------------------------------
(* Inputs: what the user types and what the remote side and the file       *)
(* system answer.                                                          *)

\* the largest snapshot file, in chunks
MaxChunks == 3

\* the lengths of the snapshot files: around every multiple of the chunk size
BlobLens ==
    {n \in 0..(MaxChunks * ChunkSize) :
        \E k \in 0..MaxChunks : \E d \in {-1, 0, 1} : n = k * ChunkSize + d}

\* the content of a snapshot file of n bytes; bytes one chunk apart differ
Blob(n) == [k \in 1..n |-> ((k - 1) + ((k - 1) \div 256)) % 256]

N_a == <<"a">>
N_b == <<"b">>
F_in == <<"f">>

\* argument vectors of zero to three arguments (the empty string included)
Argvs ==
    { <<>>, <<<<>>>>, <<N_a>>, <<N_b>>, <<SNAPSHOT_ERR>>,
      <<N_a, N_b>>, <<F_in, <<>>>>, <<N_a, N_b, N_a>> }

\* argument vectors of 'snapshot load': a file path and an optional name
LoadArgvs == { <<>>, <<F_in>>, <<F_in, N_b>>, <<F_in, <<>>>>, <<F_in, N_a, N_b>> }

\* replies to 'info'
InfoReplies ==
    { <<>>,
      <<"a",":","1","0","\n">>,
      <<"a",":","1","0","\n","b",":","2","f","\n">>,
      <<"\n","b",":","0","x","2","F","\n","\n">>,
      <<"a",":","1","0","\n","a",":","2","0","\n">>,
      <<"a",":","1","0","\n","b",":","2","f","\n","a",":","2","0">>,
      <<"a",":","b",":","1","\n">>,
      <<"a",":","z","z","\n">>,
      <<"a","\n">>,
      SNAPSHOT_ERR \o <<":","1","f","\n">>,
      SNAPSHOT_ERR \o <<"\n">> }

\* replies that carry a snapshot name, or an error
NameReplies ==
    { <<>>, N_a, N_b, <<"a","\n">>, SNAPSHOT_ERR, SNAPSHOT_ERR \o <<":"," ","x">> }

\* replies to a data chunk of 'load'
AckReplies ==
    { <<"0">>, <<"1">>, <<"1","0","2","3">>, <<"1","0","2","4">>,
      <<"1","0","2","4","\n">>, <<>>, <<"x">>,
      SNAPSHOT_ERR, SNAPSHOT_ERR \o <<":"," ","1","0","2","4">> }

\* replies to 'save'
SaveReplies ==
    { <<>>, <<"0","0","f","f">>, <<"0","a","F","F"," ","0","1","\n">>,
      <<"z","z">>, <<"0","0","f">>, SNAPSHOT_ERR, <<"0","0"," ">> \o SNAPSHOT_ERR }

---------------------------------------------------------------------------
(* The state at the gdb prompt, before a command is typed.                 *)

Init ==
    /\ pc = "prompt"
    /\ op = "none"
    /\ argv = <<>>
    /\ sent = <<>>
    /\ recv = <<>>
    /\ outcome = Returned
    /\ out = <<>>
    /\ snap_data = <<>>
    /\ idx = 0
    /\ file = NoFile
    /\ calls = <<>>
    /\ remote = [snaps |-> <<>>, upload |-> <<>>]
    /\ disk = <<>>
    /\ hist = [seen |-> <<>>, loaded |-> FALSE, free |-> FALSE]

\* the handler ends (returns or raises) with outcome o
Finish(o) == pc' = "returned" /\ outcome' = o

\* a conversion fn applied to the reply arg
Applied(fn, arg) == calls' = Append(calls, [fn |-> fn, arg |-> arg])

\* one call of snapshot_cmd(cmd) answered by reply
Call(cmd, reply) ==
    /\ sent' = Append(sent, snapshot_cmd(cmd))
    /\ recv' = Append(recv, reply)

---------------------------------------------------------------------------
(* snapshot create                                                         *)

\* name = None if not len(argv) else argv[0]; None is the empty option
CreateName(av) == IF Len(av) = 0 THEN <<>> ELSE <<av[1]>>

\* truth value of an optional str: neither None nor ''
Truthy(name) == name # <<>> /\ name[1] # <<>>

\* cmd = f'create;name:{name}' if name else 'create'
CreateCmd(name) == IF Truthy(name) THEN S_create_name \o name[1] ELSE S_create

\* mutant of CreateFailed: the returned name is not compared
CreateFailed_sentinel(name, ret_name) == Contains(ret_name, SNAPSHOT_ERR)

\* (name and not ret_name == name) or 'SNAPSHOT ERR' in ret_name
CreateFailed(name, ret_name) ==
    \/ (Truthy(name) /\ ~(ret_name = name[1]))
    \/ Contains(ret_name, SNAPSHOT_ERR)

Create(av, ret_name) ==
    /\ pc = "prompt"
    /\ op' = "create"
    /\ argv' = av
    /\ Call(CreateCmd(CreateName(av)), ret_name)
    /\ IF CreateFailed(CreateName(av), ret_name)
       THEN /\ Finish(GdbError("Snapshot creation failed!"))
            /\ out' = out
       ELSE /\ Finish(Returned)
            /\ out' = Append(out, Written("Created snapshot", <<ret_name>>))
    /\ UNCHANGED <<snap_data, idx, file, calls>>

---------------------------------------------------------------------------
(* snapshot restore                                                        *)

\* mutant of NotFound: the catalog is not consulted
NotFound_never(name, catalog) == FALSE

\* name not in get_snapshots_info(), for a reply that parsed into catalog
NotFound(name, catalog) == ~DictHas(catalog, name)

\* cmd = f'restore;name:{name}'
RestoreCmd(name) == S_restore_name \o name

\* mutant of RestoreFailed: the echoed name is not compared
RestoreFailed_sentinel(name, ret_name) == Contains(ret_name, SNAPSHOT_ERR)

\* (ret_name != name) or 'SNAPSHOT ERR' in ret_name
RestoreFailed(name, ret_name) ==
    (ret_name # name) \/ Contains(ret_name, SNAPSHOT_ERR)

\* lines 59..64: the usage check and the catalog lookup
RestoreBegin(av, ret_info) ==
    /\ pc = "prompt"
    /\ op' = "restore"
    /\ argv' = av
    /\ IF Len(av) # 1
       THEN /\ Finish(GdbError("Usage: snapshot restore $snapshot_name"))
            /\ UNCHANGED <<sent, recv>>
       ELSE /\ Call(S_info, ret_info)
            /\ IF ~get_snapshots_info(ret_info).ok
               THEN Finish(ValueError)
               ELSE IF NotFound(av[1], get_snapshots_info(ret_info).val)
               THEN Finish(GdbError("Snapshot not found!"))
               ELSE pc' = "restore_cmd" /\ outcome' = Running
    /\ UNCHANGED <<out, snap_data, idx, file, calls>>

\* lines 66..73: the restore command and its reply
RestoreSend(ret_name) ==
    /\ pc = "restore_cmd"
    /\ Call(RestoreCmd(argv[1]), ret_name)
    /\ IF RestoreFailed(argv[1], ret_name)
       THEN /\ Finish(GdbError("Restoring snapshot failed!"))
            /\ out' = out
       ELSE /\ Finish(Returned)
            /\ out' = Append(out, Written("Restored snapshot", <<ret_name>>))
    /\ UNCHANGED <<op, argv, snap_data, idx, file, calls>>

---------------------------------------------------------------------------
(* snapshot save                                                           *)

\* av[i] of Python for i >= 0: [ok |-> FALSE] stands for IndexError
PyIndex(av, i) ==
    IF i < Len(av) THEN [ok |-> TRUE, val |-> av[i + 1]] ELSE [ok |-> FALSE, val |-> <<>>]

\* f_out = f'./{name}.qsp' if len(argv) == 1 else argv[2]
SaveFOut(av) ==
    IF Len(av) = 1 THEN [ok |-> TRUE, val |-> S_dot_slash \o av[1] \o S_qsp]
    ELSE PyIndex(av, 2)

\* cmd = f'save;name:{name}'
SaveCmd(name) == S_save_name \o name

\* mutant of SaveFailed: the reply must be the sentinel itself
SaveFailed_exact(reply) == reply = SNAPSHOT_ERR

\* 'SNAPSHOT ERR' in snap_data
SaveFailed(reply) == Contains(reply, SNAPSHOT_ERR)

\* lines 82..92: usage, output path, catalog lookup, directory check.
\* dir_exists is what os.path.exists answers for a non-empty directory name.
SaveBegin(av, ret_info, dir_exists) ==
    /\ pc = "prompt"
    /\ op' = "save"
    /\ argv' = av
    /\ IF Len(av) = 0 \/ Len(av) > 2
       THEN /\ Finish(GdbError("Usage: snapshot save snapshot_name [file path]"))
            /\ UNCHANGED <<sent, recv>>
       ELSE IF ~SaveFOut(av).ok
       THEN /\ Finish(IndexError)
            /\ UNCHANGED <<sent, recv>>
       ELSE /\ Call(S_info, ret_info)
            /\ IF ~get_snapshots_info(ret_info).ok
               THEN Finish(ValueError)
               ELSE IF NotFound(av[1], get_snapshots_info(ret_info).val)
               THEN Finish(GdbError("Snapshot not found!"))
               ELSE IF ~(Dirname(SaveFOut(av).val) # <<>> /\ dir_exists)
               THEN Finish(GdbError("Directory does not exist!"))
               ELSE pc' = "save_cmd" /\ outcome' = Running
    /\ UNCHANGED <<out, snap_data, idx, file, calls>>

\* lines 94..103: the save command, the sentinel check, the file write.
\* can_open is whether open(f_out, 'wb') succeeds.
SaveSend(reply, can_open) ==
    /\ pc = "save_cmd"
    /\ Call(SaveCmd(argv[1]), reply)
    /\ IF SaveFailed(reply)
       THEN /\ Finish(GdbError("Saving snapshot failed!"))
            /\ UNCHANGED <<out, file, calls>>
       ELSE IF ~can_open
       THEN /\ Finish(OSError)
            /\ UNCHANGED <<out, file, calls>>
       ELSE IF ~FromHex(reply).ok
       THEN \* open(..., 'wb') has already created or truncated the file
            /\ Finish(ValueError)
            /\ Applied("fromhex", reply)
            /\ file' = [path |-> SaveFOut(argv).val, open |-> TRUE, data |-> <<>>]
            /\ out' = out
       ELSE /\ Finish(Returned)
            /\ Applied("fromhex", reply)
            /\ file' = [path |-> SaveFOut(argv).val, open |-> TRUE,
                        data |-> FromHex(reply).val]
            /\ out' = Append(out, Written("Saved snapshot to", <<argv[1], SaveFOut(argv).val>>))
    /\ UNCHANGED <<op, argv, snap_data, idx>>

---------------------------------------------------------------------------
(* snapshot load                                                           *)

\* snap_data[:1024]
StartChunk(b) == Slice(b, 0, ChunkSize)

\* mutant of ContChunk: the window starts one byte late
ContChunk_late(b, i) == Slice(b, i + 1, i + ChunkSize)

\* snap_data[i:i + 1024]
ContChunk(b, i) == Slice(b, i, i + ChunkSize)

\* mutant of StartCmd: the state field is written before the data field
StartCmd_statefirst(b) ==
    <<"l","o","a","d">> \o S_state_start \o <<";","d","a","t","a",":">> \o Hex(StartChunk(b))

\* f'load;data:{snap_data[:1024].hex()};state:start'
StartCmd(b) == S_load_data \o Hex(StartChunk(b)) \o S_state_start

\* f'load;data:{snap_data[i:i + 1024].hex()};state:cont'
ContCmd(b, i) == S_load_data \o Hex(ContChunk(b, i)) \o S_state_cont

\* mutant of AckMismatch: only an ack larger than the chunk is refused
AckMismatch_gt(len_recv, chunk) == len_recv > Len(chunk)

\* len_recv != len(chunk)
AckMismatch(len_recv, chunk) == len_recv # Len(chunk)

\* range(1024, len(snap_data), 1024): first value, membership, step
RangeFirst == ChunkSize
\* mutant of InRange: the range includes its stop value
InRange_le(i, n) == i <= n
InRange(i, n) == i < n
\* mutant of RangeStep: the loop index does not advance
RangeStep_stuck(i) == i

RangeStep(i) == i + ChunkSize

\* mutant of DoneCmd: the target name is never appended
DoneCmd_noname(av) == S_load_done

\* cmd = 'load;state:done', plus f';name:{argv[1]}' if len(argv) == 2
DoneCmd(av) == IF Len(av) = 2 THEN S_load_done \o S_name_field \o av[2] ELSE S_load_done

\* 'SNAPSHOT ERR' in ret_name
LoadFailed(ret_name) == Contains(ret_name, SNAPSHOT_ERR)

\* mutant of LoadGoOn: the loop body runs once before the range is tested
LoadGoOn_dowhile(i, n) ==
    /\ outcome' = Running
    /\ IF InRange(i, n) \/ i = RangeFirst THEN pc' = "load_cont" /\ idx' = i
       ELSE pc' = "load_done" /\ idx' = idx

\* after a chunk was acknowledged: the loop goes on with i, or is over
LoadGoOn(i, n) ==
    /\ outcome' = Running
    /\ IF InRange(i, n) THEN pc' = "load_cont" /\ idx' = i
       ELSE pc' = "load_done" /\ idx' = idx

\* lines 112..125: usage, reading the file, the state:start chunk.
\* f_kind is what the path names: nothing, a directory, or a file holding b.
LoadBegin(av, f_kind, b, reply) ==
    /\ pc = "prompt"
    /\ op' = "load"
    /\ argv' = av
    /\ IF Len(av) = 0 \/ Len(av) > 2
       THEN /\ Finish(GdbError("Usage: snapshot load file_path [name]"))
            /\ UNCHANGED <<sent, recv, snap_data, idx, calls>>
       ELSE IF f_kind = "absent"
       THEN /\ Finish(GdbError("Snapshot file doesn't exist!"))
            /\ UNCHANGED <<sent, recv, snap_data, idx, calls>>
       ELSE IF f_kind = "dir"
       THEN /\ Finish(OSError)
            /\ UNCHANGED <<sent, recv, snap_data, idx, calls>>
       ELSE /\ snap_data' = b
            /\ Call(StartCmd(b), reply)
            /\ Applied("int", reply)
            /\ IF ~PyInt(reply, 10).ok
               THEN Finish(ValueError) /\ idx' = idx
               ELSE IF AckMismatch(PyInt(reply, 10).val, StartChunk(b))
               THEN Finish(GdbError("Error sending snapshot data (State: start)!")) /\ idx' = idx
               ELSE LoadGoOn(RangeFirst, Len(b))
    /\ UNCHANGED <<out, file>>

\* lines 129..132: one pass of the state:cont loop
LoadCont(reply) ==
    /\ pc = "load_cont"
    /\ Call(ContCmd(snap_data, idx), reply)
    /\ Applied("int", reply)
    /\ IF ~PyInt(reply, 10).ok
       THEN Finish(ValueError) /\ idx' = idx
       ELSE IF AckMismatch(PyInt(reply, 10).val, ContChunk(snap_data, idx))
       THEN Finish(GdbError("Error sending snapshot data!")) /\ idx' = idx
       ELSE LoadGoOn(RangeStep(idx), Len(snap_data))
    /\ UNCHANGED <<op, argv, out, snap_data, file>>

\* lines 134..143: the state:done command and its reply
LoadDone(ret_name) ==
    /\ pc = "load_done"
    /\ Call(DoneCmd(argv), ret_name)
    /\ IF LoadFailed(ret_name)
       THEN /\ Finish(GdbError("Saving snapshot failed!"))
            /\ out' = out
       ELSE /\ Finish(Returned)
            /\ out' = Append(out, Written("Loaded snapshot from", <<ret_name, argv[1]>>))
    /\ UNCHANGED <<op, argv, snap_data, idx, file, calls>>

---------------------------------------------------------------------------
(* snapshot info, snapshot delete                                          *)

\* the table SnapshotInfoCommand.invoke writes for the catalog
InfoTable(catalog) ==
    <<Written("Offset (PC): Name", <<>>)>>
        \o [k \in 1..Len(catalog) |-> Written("entry", <<PyHex(catalog[k][2]), catalog[k][1]>>)]

SnapshotInfo(ret_info) ==
    /\ pc = "prompt"
    /\ op' = "info"
    /\ argv' = <<>>
    /\ Call(S_info, ret_info)
    /\ IF ~get_snapshots_info(ret_info).ok
       THEN Finish(ValueError) /\ out' = out
       ELSE Finish(Returned) /\ out' = InfoTable(get_snapshots_info(ret_info).val)
    /\ UNCHANGED <<snap_data, idx, file, calls>>

\* SnapshotDeleteCommand defines no invoke method: gdb refuses the command
SnapshotDelete(av) ==
    /\ pc = "prompt"
    /\ op' = "delete"
    /\ argv' = av
    /\ Finish(GdbError("Python command object missing 'invoke' method."))
    /\ UNCHANGED <<sent, recv, out, snap_data, idx, file, calls>>

---------------------------------------------------------------------------
(* Back at the prompt: the handler's locals are gone.                      *)

Prompt ==
    /\ pc = "returned"
    /\ pc' = "prompt"
    /\ op' = "none"
    /\ argv' = <<>>
    /\ sent' = <<>>
    /\ recv' = <<>>
    /\ outcome' = Returned
    /\ out' = <<>>
    /\ snap_data' = <<>>
    /\ idx' = 0
    /\ file' = NoFile
    /\ calls' = <<>>

\* the replies are any strings: the remote side and the files are left out
Free == UNCHANGED <<remote, disk, hist>>

Next ==
    \/ \E av \in Argvs, r \in NameReplies : Create(av, r) /\ Free
    \/ \E av \in Argvs, r \in InfoReplies : RestoreBegin(av, r) /\ Free
    \/ \E r \in NameReplies : RestoreSend(r) /\ Free
    \/ \E av \in Argvs, r \in InfoReplies, d \in BOOLEAN : SaveBegin(av, r, d) /\ Free
    \/ \E r \in SaveReplies, o \in BOOLEAN : SaveSend(r, o) /\ Free
    \/ \E av \in LoadArgvs, k \in {"absent", "dir", "file"}, n \in BlobLens, r \in AckReplies :
           LoadBegin(av, k, Blob(n), r) /\ Free
    \/ \E r \in AckReplies : LoadCont(r) /\ Free
    \/ \E r \in NameReplies : LoadDone(r) /\ Free
    \/ \E r \in InfoReplies : SnapshotInfo(r) /\ Free
    \/ \E av \in Argvs : SnapshotDelete(av) /\ Free
    \/ Prompt /\ Free

Spec == Init /\ [][Next]_vars

\* snapshot_cmd is a synchronous call that returns, and the code after it is
\* straight-line: once a load is past its state:start chunk, the next pass of
\* the loop and the state:done exchange are taken.
SpecLive ==
    /\ Init
    /\ [][Next]_vars
    /\ WF_vars(\E r \in AckReplies : LoadCont(r) /\ Free)
    /\ WF_vars(\E r \in NameReplies : LoadDone(r) /\ Free)

---------------------------------------------------------------------------
(* Reading the commands back off the wire, as the remote side would.       *)

K_data == <<"d","a","t","a">>
K_state == <<"s","t","a","t","e">>
K_name == <<"n","a","m","e">>
V_start == <<"s","t","a","r","t">>
V_cont == <<"c","o","n","t">>
V_done == <<"d","o","n","e">>
V_load == <<"l","o","a","d">>
V_info == <<"i","n","f","o">>
V_create == <<"c","r","e","a","t","e">>
V_restore == <<"r","e","s","t","o","r","e">>
V_save == <<"s","a","v","e">>
V_delete == <<"d","e","l","e","t","e">>

\* the snapshot command carried by a gdb command line
Wire(s) == SubSeq(s, Len(MONITOR) + 1, Len(s))

\* its ';'-separated parts: the verb, then the fields
Parts(s) == Split(Wire(s), ";")
Verb(s) == Parts(s)[1]

\* s.startswith(p)
StartsWith(s, p) == Len(s) >= Len(p) /\ SubSeq(s, 1, Len(p)) = p

\* the positions of the fields 'key:...' among the parts
FieldAt(s, key) ==
    LET ps == Parts(s)
    IN  {k \in 2..Len(ps) : StartsWith(ps[k], key \o <<":">>)}

HasField(s, key) == FieldAt(s, key) # {}

FieldVal(s, key) ==
    LET f == Parts(s)[CHOOSE k \in FieldAt(s, key) : TRUE]
    IN  SubSeq(f, Len(key) + 2, Len(f))

\* the value of each lowercase hex digit
HexVal == [c \in {HexDigits[v] : v \in 1..16} |-> CHOOSE v \in 0..15 : HexDigits[v + 1] = c]

\* the bytes written by an even number of lowercase hex digits
Unhex(h) ==
    [k \in 1..(Len(h) \div 2) |-> 16 * HexVal[h[2 * k - 1]] + HexVal[h[2 * k]]]

IsData(s) == Verb(s) = V_load /\ HasField(s, K_data)
IsDone(s) == Verb(s) = V_load /\ HasField(s, K_state) /\ FieldVal(s, K_state) = V_done
Payload(s) == Unhex(FieldVal(s, K_data))

RECURSIVE ConcatPayloads(_)
\* the payloads of the data commands among cmds, concatenated in order
ConcatPayloads(cmds) ==
    IF cmds = <<>> THEN <<>>
    ELSE (IF IsData(Head(cmds)) THEN Payload(Head(cmds)) ELSE <<>>)
             \o ConcatPayloads(Tail(cmds))

Min(a, b) == IF a < b THEN a ELSE b

\* the number of bytes a data command carries: two hex digits each
PayloadLen(s) == Len(FieldVal(s, K_data)) \div 2

\* the reply to the k-th command is no number, or not the number of bytes sent
BadAck(k) ==
    LET r == PyInt(recv[k], 10)
    IN  ~r.ok \/ r.val # PayloadLen(sent[k])

\* every data chunk of the load session has been sent and acknowledged
AllAcked ==
    /\ op = "load"
    /\ pc = "load_done" \/ \E k \in 1..Len(sent) : IsDone(sent[k])

DataCount == Cardinality({k \in 1..Len(sent) : IsData(sent[k])})

---------------------------------------------------------------------------
(* Claims.                                                                 *)

\* C1: in a load session the k-th data command (counting from 1) carries the
\* bytes [1024(k-1), min(1024k, n)) of the blob, the first with state:start and
\* the others with state:cont, every later window being a non-empty one; no
\* other command precedes a data command; and once all chunks are
\* acknowledged the payloads sent, concatenated in order, are the blob.
C1_ChunksInOrder ==
    op = "load" =>
        /\ \A k \in 1..Len(sent) : IsData(sent[k]) =>
              /\ \A j \in 1..(k - 1) : IsData(sent[j])
              /\ k > 1 => 1024 * (k - 1) < Len(snap_data)
              /\ Payload(sent[k]) =
                    SubSeq(snap_data, 1024 * (k - 1) + 1, Min(1024 * k, Len(snap_data)))
              /\ FieldVal(sent[k], K_state) = IF k = 1 THEN V_start ELSE V_cont
        /\ AllAcked => ConcatPayloads(sent) = snap_data

\* a load of a three-chunk blob whose last chunk is short ran to its end
C1_Witness ==
    /\ op = "load" /\ pc = "returned" /\ outcome = Returned
    /\ Len(snap_data) = 2049
    /\ DataCount = 3

\* the length of the last data chunk a blob of n bytes must end with
LastLen(n) == IF n < 1024 THEN n ELSE IF n % 1024 = 0 THEN 1024 ELSE n % 1024

\* C2 as stated: with every ack correct a blob of n bytes goes out in exactly
\* ceil(n / 1024) data chunks, none above 1024 bytes, whose lengths sum to n,
\* the last of length LastLen(n).
C2_Original ==
    AllAcked =>
        /\ DataCount = (Len(snap_data) + 1023) \div 1024
        /\ Len(ConcatPayloads(sent)) = Len(snap_data)
        /\ PayloadLen(sent[DataCount]) = LastLen(Len(snap_data))
        /\ \A k \in 1..DataCount : PayloadLen(sent[k]) <= 1024

\* C2 amended: the same, except that the empty blob goes out in one (empty)
\* data chunk: the number of data chunks is max(1, ceil(n / 1024)).
C2_ChunkCount ==
    AllAcked =>
        /\ DataCount = (IF Len(snap_data) = 0 THEN 1
                        ELSE (Len(snap_data) + 1023) \div 1024)
        /\ Len(ConcatPayloads(sent)) = Len(snap_data)
        /\ PayloadLen(sent[DataCount]) = LastLen(Len(snap_data))
        /\ \A k \in 1..DataCount : PayloadLen(sent[k]) <= 1024

\* all chunks of a blob of exactly two chunk sizes have been acknowledged
C2_Witness ==
    /\ AllAcked
    /\ Len(snap_data) = 2048
    /\ DataCount = 2

\* C3: in a load session, once the reply to a data chunk is no number or a
\* number other than the bytes sent in it, that command is the last one sent
\* and the handler has ended with an exception.
C3_AbortOnBadAck ==
    op = "load" =>
        \A k \in 1..Len(sent) : (IsData(sent[k]) /\ BadAck(k)) =>
            /\ k = Len(sent)
            /\ pc = "returned"
            /\ outcome.exc \in {"GdbError", "ValueError"}

\* chunk 2 of 3 was acknowledged with a number other than 1024
C3_Witness ==
    /\ op = "load" /\ pc = "returned"
    /\ Len(snap_data) > 2048
    /\ Len(sent) = 2
    /\ ~BadAck(1)
    /\ PyInt(recv[2], 10).ok /\ PyInt(recv[2], 10).val # 1024
    /\ outcome.exc = "GdbError"

\* C4: in a load session a state:done command is the last command sent, comes
\* after data commands only, all of them correctly acknowledged and together
\* carrying the whole blob, has no data field, and has a name field (holding
\* the second argument) exactly when a second argument was given; a session
\* that ends without exception has sent it exactly once.
C4_DoneLast ==
    op = "load" =>
        /\ \A k \in 1..Len(sent) : IsDone(sent[k]) =>
              /\ k = Len(sent)
              /\ pc = "returned"
              /\ \A j \in 1..(k - 1) : IsData(sent[j]) /\ ~BadAck(j)
              /\ ConcatPayloads(sent) = snap_data
              /\ ~HasField(sent[k], K_data)
              /\ HasField(sent[k], K_name) <=> Len(argv) = 2
              /\ Len(argv) = 2 => FieldVal(sent[k], K_name) = argv[2]
        /\ (pc = "returned" /\ outcome = Returned) =>
              Cardinality({k \in 1..Len(sent) : IsDone(sent[k])}) = 1

\* a load with a target name ran to its end
C4_Witness ==
    /\ op = "load" /\ pc = "returned" /\ outcome = Returned
    /\ Len(argv) = 2 /\ argv[2] = N_b
    /\ IsDone(sent[Len(sent)])
    /\ Len(sent) = 3

\* C5 as stated: in a load session a reply containing 'SNAPSHOT ERR' is never
\* handed to int(), and such a reply to a data chunk ends the handler with the
\* script's own error (gdb.GdbError), the remote-rejected failure.
C5_SentinelBeforeInt ==
    op = "load" =>
        /\ \A k \in 1..Len(calls) :
              calls[k].fn = "int" => ~Contains(calls[k].arg, SNAPSHOT_ERR)
        /\ \A k \in 1..Len(sent) :
              (IsData(sent[k]) /\ Contains(recv[k], SNAPSHOT_ERR)) =>
                  pc = "returned" /\ outcome.exc = "GdbError"

\* the catalog parsed from the reply to the first command of the invocation
Catalog == get_snapshots_info(recv[1])

\* C6: when the reply to the save command contains 'SNAPSHOT ERR' the handler
\* ends with GdbError 'Saving snapshot failed!', bytes.fromhex was not called,
\* and the output file was neither opened nor written.
C6_SaveSentinel ==
    op = "save" =>
        \A k \in 1..Len(sent) :
            (Verb(sent[k]) = V_save /\ Contains(recv[k], SNAPSHOT_ERR)) =>
                /\ pc = "returned"
                /\ outcome = GdbError("Saving snapshot failed!")
                /\ \A c \in 1..Len(calls) : calls[c].fn # "fromhex"
                /\ file = NoFile

\* the save reply held the sentinel after some hex digits
C6_Witness ==
    /\ op = "save" /\ pc = "returned"
    /\ Len(sent) = 2 /\ Verb(sent[2]) = V_save
    /\ Contains(recv[2], SNAPSHOT_ERR) /\ recv[2] # SNAPSHOT_ERR

\* C7: in restore and save, whatever is sent starts with the info query; a
\* restore or save command is the second command, names the first argument,
\* and follows an info reply that parsed into a catalog holding that name;
\* and when the parsed catalog lacks the name the handler has ended with
\* 'not found' having sent the info query only.
C7_LookupBeforeSend ==
    op \in {"restore", "save"} =>
        /\ Len(sent) >= 1 => Wire(sent[1]) = V_info
        /\ \A k \in 1..Len(sent) : Verb(sent[k]) \in {V_restore, V_save} =>
              /\ k = 2
              /\ Verb(sent[k]) = (IF op = "restore" THEN V_restore ELSE V_save)
              /\ Parts(sent[k]) = <<Verb(sent[k]), K_name \o <<":">> \o argv[1]>>
              /\ Catalog.ok
              /\ DictHas(Catalog.val, argv[1])
        /\ (Len(sent) >= 1 /\ Catalog.ok /\ ~DictHas(Catalog.val, argv[1])) =>
              /\ pc = "returned"
              /\ Len(sent) = 1
              /\ outcome = GdbError("Snapshot not found!")

\* restore of a name that a non-empty catalog does not hold
C7_Witness ==
    /\ op = "restore" /\ pc = "returned"
    /\ Len(sent) = 1
    /\ Catalog.ok /\ Len(Catalog.val) > 0
    /\ ~DictHas(Catalog.val, argv[1])
    /\ outcome = GdbError("Snapshot not found!")

\* C8: restore of one name ends without exception exactly when the queried
\* catalog holds the name and the reply to the restore command equals the
\* name and does not contain 'SNAPSHOT ERR'; it then reports the echoed name.
C8_RestoreSuccess ==
    (op = "restore" /\ pc = "returned" /\ Len(argv) = 1) =>
        /\ outcome = Returned <=>
              /\ Len(sent) = 2
              /\ Catalog.ok
              /\ DictHas(Catalog.val, argv[1])
              /\ recv[2] = argv[1]
              /\ ~Contains(recv[2], SNAPSHOT_ERR)
        /\ outcome = Returned => out = <<Written("Restored snapshot", <<argv[1]>>)>>
        /\ outcome # Returned => outcome.exc \in {"GdbError", "ValueError"} /\ out = <<>>

\* restore of a catalogued name echoed by the remote side
C8_Witness ==
    /\ op = "restore" /\ pc = "returned"
    /\ argv = <<N_b>>
    /\ Len(sent) = 2 /\ recv[2] = N_b
    /\ outcome = Returned

\* a name was supplied to create: a first argument that is not empty
Supplied == Len(argv) >= 1 /\ argv[1] # <<>>

\* C9: create sends exactly one command, 'create;name:<name>' when a name was
\* supplied and 'create' otherwise; it ends with GdbError exactly when the
\* reply contains 'SNAPSHOT ERR' or a name was supplied and the reply differs
\* from it, and otherwise returns having reported the replied name.
C9_Create ==
    (op = "create" /\ pc = "returned") =>
        /\ Len(sent) = 1
        /\ Wire(sent[1]) = (IF Supplied
                            THEN V_create \o <<";">> \o K_name \o <<":">> \o argv[1]
                            ELSE V_create)
        /\ outcome.exc = "GdbError" <=>
              \/ Contains(recv[1], SNAPSHOT_ERR)
              \/ (Supplied /\ recv[1] # argv[1])
        /\ outcome.exc # "GdbError" =>
              /\ outcome = Returned
              /\ out = <<Written("Created snapshot", <<recv[1]>>)>>

\* create without a name, the remote side answering with a generated name
C9_Witness ==
    /\ op = "create" /\ pc = "returned"
    /\ argv = <<>>
    /\ recv = <<N_b>>
    /\ outcome = Returned

\* C10 as stated: delete of one name queries the catalog first; when the
\* catalog lacks the name it ends with 'not found' having sent nothing else,
\* and otherwise it sends a delete command for that name.
C10_DeleteChecksAndSends ==
    (op = "delete" /\ pc = "returned" /\ Len(argv) = 1) =>
        /\ Len(sent) >= 1
        /\ Wire(sent[1]) = V_info
        /\ (Catalog.ok /\ ~DictHas(Catalog.val, argv[1])) =>
              Len(sent) = 1 /\ outcome = GdbError("Snapshot not found!")
        /\ (Catalog.ok /\ DictHas(Catalog.val, argv[1])) =>
              /\ Len(sent) = 2
              /\ Parts(sent[2]) = <<V_delete, K_name \o <<":">> \o argv[1]>>

\* the last command sent and the reply to it
LastSent == sent[Len(sent)]
LastRecv == recv[Len(recv)]

\* C11 as stated: when load was given a target name and the reply to the
\* state:done command holds no 'SNAPSHOT ERR' but differs from that name, the
\* handler ends with an error, not with a successful load.
C11_NameMismatch ==
    ( /\ op = "load" /\ pc = "returned" /\ Len(argv) = 2
      /\ sent # <<>> /\ IsDone(LastSent)
      /\ ~Contains(LastRecv, SNAPSHOT_ERR)
      /\ LastRecv # argv[2] )
    => outcome.exc = "GdbError"

\* the load handler got as far as reading the snapshot file
FileRead ==
    /\ op = "load"
    /\ outcome \notin { GdbError("Usage: snapshot load file_path [name]"),
                        GdbError("Snapshot file doesn't exist!"), OSError }

StartCount ==
    Cardinality({k \in 1..Len(sent) :
        IsData(sent[k]) /\ FieldVal(sent[k], K_state) = V_start})

ContCount ==
    Cardinality({k \in 1..Len(sent) :
        IsData(sent[k]) /\ FieldVal(sent[k], K_state) = V_cont})

\* C12: a load of an empty file sends first a state:start command with an
\* empty data field; a reply that is not the number 0 ends the handler with
\* an exception and nothing more is sent; after the reply 0 no state:cont
\* command is sent and the next command is state:done.
C12_EmptyBlob ==
    (FileRead /\ snap_data = <<>>) =>
        /\ Len(sent) >= 1
        /\ IsData(sent[1])
        /\ FieldVal(sent[1], K_state) = V_start
        /\ FieldVal(sent[1], K_data) = <<>>
        /\ StartCount = 1 /\ ContCount = 0
        /\ (~PyInt(recv[1], 10).ok \/ PyInt(recv[1], 10).val # 0) =>
              /\ pc = "returned" /\ Len(sent) = 1
              /\ outcome.exc \in {"GdbError", "ValueError"}
        /\ (PyInt(recv[1], 10).ok /\ PyInt(recv[1], 10).val = 0) =>
              \/ pc = "load_done" /\ Len(sent) = 1
              \/ pc = "returned" /\ Len(sent) = 2 /\ IsDone(sent[2])

\* the load of an empty file ran to its end
C12_Witness ==
    /\ FileRead /\ snap_data = <<>>
    /\ pc = "returned" /\ outcome = Returned
    /\ Len(sent) = 2 /\ recv[1] = <<"0">>

\* C13: a load that ends without exception has sent exactly one state:start
\* command and one state:cont command per further 1024-byte window of the
\* blob; for a blob of exactly 1024 bytes that is the start command followed
\* directly by state:done.
C13_StartOnce ==
    (op = "load" /\ pc = "returned" /\ outcome = Returned) =>
        /\ StartCount = 1
        /\ ContCount = (IF Len(snap_data) <= 1024 THEN 0
                        ELSE (Len(snap_data) - 1024 + 1023) \div 1024)
        /\ Len(snap_data) = 1024 =>
              /\ Len(sent) = 2
              /\ FieldVal(sent[1], K_state) = V_start
              /\ IsDone(sent[2])

\* the load of a blob of exactly one chunk ran to its end
C13_Witness ==
    /\ op = "load" /\ pc = "returned" /\ outcome = Returned
    /\ Len(snap_data) = 1024
    /\ StartCount = 1 /\ ContCount = 0

---------------------------------------------------------------------------
(* Reading an info reply line by line, without the script's own splitting. *)

\* the lines of s: the maximal runs <<i, j>> of characters other than newline
LineSpans(s) ==
    {sp \in (1..Len(s)) \X (1..Len(s)) :
        /\ sp[1] <= sp[2]
        /\ \A k \in sp[1]..sp[2] : s[k] # "\n"
        /\ sp[1] = 1 \/ s[sp[1] - 1] = "\n"
        /\ sp[2] = Len(s) \/ s[sp[2] + 1] = "\n"}

\* the positions of the separators of a line
Colons(s, sp) == {k \in sp[1]..sp[2] : s[k] = ":"}

\* name and offset text of a line with one separator
LineName(s, sp) == SubSeq(s, sp[1], (CHOOSE k \in Colons(s, sp) : TRUE) - 1)
LineOffset(s, sp) == SubSeq(s, (CHOOSE k \in Colons(s, sp) : TRUE) + 1, sp[2])

\* a record: exactly one separator, and an offset that int(v, 16) accepts
GoodLine(s, sp) ==
    /\ Cardinality(Colons(s, sp)) = 1
    /\ PyInt(LineOffset(s, sp), 16).ok

AllGood(s) == \A sp \in LineSpans(s) : GoodLine(s, sp)

\* the rows of the table written by 'snapshot info', below its header
Rows == Tail(out)
RowOf(sp) == Written("entry", <<PyHex(PyInt(LineOffset(recv[1], sp), 16).val),
                                LineName(recv[1], sp)>>)

\* C14: the reply to 'info' is taken line by line, empty lines dropped; when
\* some line has not exactly one ':' or an offset that is no base-16 number
\* the query fails with ValueError (in info, restore and save alike) and
\* nothing else is sent; otherwise 'snapshot info' returns a table whose rows
\* are records of the reply, name and offset split at the ':', every name of
\* the reply having a row; the empty reply gives the empty table.
C14_InfoParse ==
    /\ (op \in {"info", "restore", "save"} /\ Len(sent) >= 1 /\ ~AllGood(recv[1])) =>
          pc = "returned" /\ outcome = ValueError /\ Len(sent) = 1
    /\ (op = "info" /\ pc = "returned" /\ AllGood(recv[1])) =>
          /\ outcome = Returned
          /\ out[1] = Written("Offset (PC): Name", <<>>)
          /\ \A k \in 1..Len(Rows) : \E sp \in LineSpans(recv[1]) : Rows[k] = RowOf(sp)
          /\ \A sp \in LineSpans(recv[1]) :
                \E k \in 1..Len(Rows) : Rows[k].arg[2] = LineName(recv[1], sp)
          /\ recv[1] = <<>> => Rows = <<>>
          /\ recv[1] = <<"\n","b",":","0","x","2","F","\n","\n">> =>
                Rows = <<Written("entry", <<(<<"0","x","2","f">>), N_b>>)>>

\* 'snapshot info' printed the two records of a two-line reply
C14_Witness ==
    /\ op = "info" /\ pc = "returned" /\ outcome = Returned
    /\ recv[1] = <<"a",":","1","0","\n","b",":","2","f","\n">>
    /\ Rows = << Written("entry", <<(<<"0","x","1","0">>), N_a>>),
                 Written("entry", <<(<<"0","x","2","f">>), N_b>>) >>

\* two records of the reply carry the same name
HasDuplicate(s) ==
    \E sp \in LineSpans(s), sq \in LineSpans(s) :
        /\ sp # sq
        /\ Cardinality(Colons(s, sp)) = 1 /\ Cardinality(Colons(s, sq)) = 1
        /\ LineName(s, sp) = LineName(s, sq)

\* C15 as stated: an info reply with two records of the same name makes the
\* catalog query fail.
C15_Original ==
    (op = "info" /\ pc = "returned" /\ HasDuplicate(recv[1])) =>
        outcome.exc # "none"

\* C15 amended: an info reply of well-formed records, two of them with the
\* same name, makes the query succeed with one catalog entry per name, which
\* carries the offset of the last record of that name.
C15_DuplicateCollapsed ==
    (op = "info" /\ pc = "returned" /\ AllGood(recv[1]) /\ HasDuplicate(recv[1])) =>
        /\ outcome = Returned
        /\ \A k \in 1..Len(Rows), j \in 1..Len(Rows) :
              Rows[k].arg[2] = Rows[j].arg[2] => k = j
        /\ \A sp \in LineSpans(recv[1]) :
              (\A sq \in LineSpans(recv[1]) :
                  LineName(recv[1], sq) = LineName(recv[1], sp) => sq[1] <= sp[1])
              => \E k \in 1..Len(Rows) : Rows[k] = RowOf(sp)

\* 'snapshot info' printed one row for a name that the reply held twice
C15_Witness ==
    /\ op = "info" /\ pc = "returned" /\ outcome = Returned
    /\ recv[1] = <<"a",":","1","0","\n","b",":","2","f","\n","a",":","2","0">>
    /\ Rows = << Written("entry", <<(<<"0","x","2","0">>), N_a>>),
                 Written("entry", <<(<<"0","x","2","f">>), N_b>>) >>

---------------------------------------------------------------------------
(* The request grammar <verb>[;name:..][;data:..][;state:start|cont|done]. *)

Verbs == {V_info, V_create, V_restore, V_delete, V_save, V_load}

\* the key of a field: the text before its first ':' (the whole field if none)
KeyOf(f) ==
    LET P == {k \in 1..Len(f) : f[k] = ":"}
    IN  IF P = {} THEN f ELSE SubSeq(f, 1, (CHOOSE a \in P : \A b \in P : a <= b) - 1)

\* the place of a key in the grammar, 0 for a key it does not have
Rank(key) ==
    IF key = K_name THEN 1 ELSE IF key = K_data THEN 2 ELSE IF key = K_state THEN 3 ELSE 0

\* the ranks of the fields of a command line, in the order they are written
Ranks(s) == LET ps == Parts(s) IN [k \in 1..(Len(ps) - 1) |-> Rank(KeyOf(ps[k + 1]))]

\* s.endswith(p)
EndsWith(s, p) == Len(s) >= Len(p) /\ SubSeq(s, Len(s) - Len(p) + 1, Len(s)) = p

\* a 'monitor snapshot;' line with a known verb and key:value fields of known keys
WellFormed(s) ==
    LET ps == Parts(s)
        rs == Ranks(s)
    IN  /\ StartsWith(s, MONITOR)
        /\ ps[1] \in Verbs
        /\ \A k \in 2..Len(ps) : KeyOf(ps[k]) # ps[k]
        /\ \A k \in 1..Len(rs) : rs[k] > 0
        /\ \A k \in 2..Len(ps) :
               KeyOf(ps[k]) = K_state =>
                   SubSeq(ps[k], Len(K_state) + 2, Len(ps[k])) \in {V_start, V_cont, V_done}

\* the fields come in the order name, data, state, none twice
Ordered(s) == LET rs == Ranks(s) IN \A k \in 1..(Len(rs) - 1) : rs[k] < rs[k + 1]

\* C18 as stated: every command sent is a well-formed line of the grammar
\* with its fields in the order name, data, state.
C18_Original ==
    \A k \in 1..Len(sent) : Ordered(sent[k]) /\ WellFormed(sent[k])

\* C18 amended: every command sent is a well-formed line of the grammar with
\* its fields in the order name, data, state, except the state:done command of
\* a load with a target name, which is 'load;state:done;name:<name>': there
\* the name field follows the state field.
C18_Grammar ==
    \A k \in 1..Len(sent) :
        /\ WellFormed(sent[k])
        /\ IF StartsWith(Wire(sent[k]), S_load_done \o S_name_field)
           THEN Ranks(sent[k]) = <<3, 1>>
           ELSE Ordered(sent[k])

\* a load with a target name has sent its data commands and state:done
C18_Witness ==
    /\ op = "load" /\ pc = "returned"
    /\ Len(sent) = 4
    /\ Ranks(sent[1]) = <<2, 3>> /\ Ranks(sent[3]) = <<2, 3>>
    /\ Ranks(sent[4]) = <<3, 1>>

---------------------------------------------------------------------------
(* snapshot save with one and with two arguments.                          *)

\* the path the usage string promises: './<name>.qsp', or the second argument
PromisedPath == IF Len(argv) = 1 THEN S_dot_slash \o argv[1] \o S_qsp ELSE argv[2]

\* C20: a save with one or two arguments does not fault on its argument
\* list: it starts with the catalog query, sends the save command at most
\* once, and when that command was answered without the sentinel and the
\* handler returned, the decoded reply is in the file at './<name>.qsp' (one
\* argument) or at the second argument (two arguments).
C20_SavePath ==
    (op = "save" /\ pc = "returned" /\ Len(argv) \in {1, 2}) =>
        /\ outcome.exc # "IndexError"
        /\ Len(sent) >= 1 /\ Verb(sent[1]) = V_info
        /\ Len(sent) <= 2
        /\ (Len(sent) = 2 /\ ~Contains(recv[2], SNAPSHOT_ERR) /\ outcome = Returned) =>
               /\ Verb(sent[2]) = V_save
               /\ file = [path |-> PromisedPath, open |-> TRUE, data |-> FromHex(recv[2]).val]

---------------------------------------------------------------------------
(* The phases of a load: start, continuing, done, and the end of the call. *)

\* where a load is: 1 sending state:cont chunks, 2 about to send state:done,
\* 3 ended (returned or raised); 0 otherwise
Phase ==
    IF op # "load" THEN 0
    ELSE IF pc = "load_cont" THEN 1
    ELSE IF pc = "load_done" THEN 2
    ELSE IF pc = "returned" THEN 3
    ELSE 0

\* the phase a sent load command announces
StateRank(s) ==
    IF EndsWith(s, S_state_start) THEN 1
    ELSE IF EndsWith(s, S_state_cont) THEN 2
    ELSE 3

\* the number of 1024-byte windows of n bytes, one for the empty blob
Windows(n) == IF n = 0 THEN 1 ELSE (n + ChunkSize - 1) \div ChunkSize

\* a load never has sent more than one command per window and state:done,
\* and the states its commands announce never go back
C19_Bounded ==
    op = "load" =>
        /\ Len(sent) <= Windows(Len(snap_data)) + 1
        /\ \A k \in 1..(Len(sent) - 1) : StateRank(sent[k]) <= StateRank(sent[k + 1])

\* a step of a load in progress sends one command and moves the phase
\* forward, or stays in the state:cont loop with a larger index; the step
\* after the end of a load sends nothing: it is the return to the prompt
C19_Forward ==
    /\ (op = "load" /\ pc \in {"load_cont", "load_done"}) =>
           /\ Len(sent') = Len(sent) + 1
           /\ \/ Phase' > Phase
              \/ Phase' = Phase /\ pc = "load_cont" /\ idx' > idx
    /\ (op = "load" /\ pc = "returned") => (pc' = "prompt" /\ sent' = <<>>)

\* C19: a load that has sent its state:start chunk ends (returns or raises)
\* after at most one command per 1024-byte window plus state:done; its phase
\* only moves forward; and after its end none of its commands is sent.
C19_LoadTerminates ==
    /\ []C19_Bounded
    /\ [][C19_Forward]_vars
    /\ (op = "load" /\ pc \in {"load_cont", "load_done"}) ~> (op = "load" /\ pc = "returned")

\* a load of a blob of MaxChunks full windows has gone through all phases
C19_Witness ==
    /\ op = "load" /\ pc = "returned" /\ outcome = Returned
    /\ Len(snap_data) = MaxChunks * ChunkSize
    /\ Len(sent) = MaxChunks + 1

---------------------------------------------------------------------------
(* The client against the remote side and the file system that the         *)
(* specification describes (the remote side is not part of snapshots.py).  *)

\* str(n) of a natural number
RECURSIVE Dec(_)
Dec(n) == IF n < 10 THEN <<HexDigits[n + 1]>>
          ELSE Append(Dec(n \div 10), HexDigits[(n % 10) + 1])

\* d[k] for a key the dict holds
Lookup(d, k) == d[CHOOSE j \in 1..Len(d) : d[j][1] = k][2]

\* the names given to 'snapshot create' and the transport name given to
\* 'snapshot load'
RT_Names == {N_a, N_b}
N_t == <<"t">>

\* the program counter at a capture: the program has moved on since the
\* snapshots held were taken, so no two captures share an offset
RT_PC(r) == 16 + 31 * Len(r.snaps)

\* a serialized snapshot is an opaque blob of more than one chunk that holds
\* the offset; two offsets give blobs that differ in every byte
SerLen == ChunkSize + 2
Serialize(off) == [k \in 1..SerLen |-> (off + k + (k \div 256)) % 256]

\* materializing a blob: only what Serialize produced is a snapshot
Deserialize(b) ==
    IF Len(b) = SerLen /\ Serialize((b[1] + 255) % 256) = b
    THEN [ok |-> TRUE, off |-> (b[1] + 255) % 256]
    ELSE [ok |-> FALSE, off |-> 0]

RECURSIVE InfoText(_)
\* the reply to 'info': one 'name:hex-offset' record per line
InfoText(snaps) ==
    IF snaps = <<>> THEN <<>>
    ELSE Head(snaps)[1] \o <<":">> \o HexNat(Head(snaps)[2]) \o <<"\n">> \o InfoText(Tail(snaps))

Rejected(r) == [reply |-> SNAPSHOT_ERR, next |-> r]

\* the remote side in state r answers the command line cmd; off is the
\* program counter at that moment.  create and load;state:done refuse a name
\* that is held already; a data chunk is acknowledged with its byte count.
RemoteReply(r, cmd, off) ==
    LET ps == Parts(cmd)
        verb == ps[1]
        val(key) == LET K == {k \in 2..Len(ps) : StartsWith(ps[k], key \o <<":">>)}
                    IN  IF K = {} THEN <<>>
                        ELSE LET f == ps[CHOOSE k \in K : TRUE]
                             IN  <<SubSeq(f, Len(key) + 2, Len(f))>>
        name == IF val(K_name) = <<>> THEN <<>> ELSE val(K_name)[1]
        held == DictHas(r.snaps, name)
        data == val(K_data)
        made == Deserialize(r.upload)
    IN  IF verb = V_info THEN [reply |-> InfoText(r.snaps), next |-> r]
        ELSE IF verb = V_create THEN
            IF name = <<>> \/ held THEN Rejected(r)
            ELSE [reply |-> name, next |-> [r EXCEPT !.snaps = Append(@, <<name, off>>)]]
        ELSE IF verb = V_restore THEN
            IF held THEN [reply |-> name, next |-> r] ELSE Rejected(r)
        ELSE IF verb = V_save THEN
            IF held THEN [reply |-> Hex(Serialize(Lookup(r.snaps, name))), next |-> r]
            ELSE Rejected(r)
        ELSE IF verb = V_load /\ data # <<>> THEN
            [reply |-> Dec(Len(data[1]) \div 2),
             next |-> [r EXCEPT !.upload =
                          IF val(K_state) = <<V_start>> THEN Unhex(data[1])
                          ELSE @ \o Unhex(data[1])]]
        ELSE IF verb = V_load THEN
            IF name # <<>> /\ ~held /\ made.ok
            THEN [reply |-> name,
                  next |-> [snaps |-> Append(r.snaps, <<name, made.off>>), upload |-> <<>>]]
            ELSE Rejected([r EXCEPT !.upload = <<>>])
        ELSE Rejected(r)

\* the path 'snapshot save <name>' writes to
PathOf(name) == S_dot_slash \o name \o S_qsp

RTCreate(av) ==
    LET a == RemoteReply(remote, snapshot_cmd(CreateCmd(CreateName(av))), RT_PC(remote))
    IN  /\ Create(av, a.reply)
        /\ remote' = a.next
        /\ UNCHANGED <<disk, hist>>

RTRestoreBegin(av) ==
    /\ RestoreBegin(av, RemoteReply(remote, snapshot_cmd(S_info), 0).reply)
    /\ Free

RTRestoreSend ==
    /\ pc = "restore_cmd"
    /\ RestoreSend(RemoteReply(remote, snapshot_cmd(RestoreCmd(argv[1])), 0).reply)
    /\ Free

\* the directory '.' exists
RTSaveBegin(av) ==
    /\ SaveBegin(av, RemoteReply(remote, snapshot_cmd(S_info), 0).reply, TRUE)
    /\ Free

\* the file the handler wrote is on disk; origin is the offset of the
\* snapshot it was saved from (history), none when the save did not succeed
RTSaveSend(can_open) ==
    /\ pc = "save_cmd"
    /\ SaveSend(RemoteReply(remote, snapshot_cmd(SaveCmd(argv[1])), 0).reply, can_open)
    /\ disk' = IF file'.open
               THEN DictPut(disk, file'.path,
                            [data |-> file'.data,
                             origin |-> IF outcome' = Returned
                                        THEN <<Lookup(remote.snaps, argv[1])>> ELSE <<>>])
               ELSE disk
    /\ UNCHANGED <<remote, hist>>

\* the file at the path, if any, is what an earlier save left there
RTLoadBegin(av) ==
    LET present == DictHas(disk, av[1])
        b == IF present THEN Lookup(disk, av[1]).data ELSE <<>>
        a == RemoteReply(remote, snapshot_cmd(StartCmd(b)), 0)
    IN  /\ LoadBegin(av, IF present THEN "file" ELSE "absent", b, a.reply)
        /\ remote' = IF present THEN a.next ELSE remote
        /\ hist' = [hist EXCEPT !.free = ~DictHas(remote.snaps, av[2])]
        /\ disk' = disk

RTLoadCont ==
    /\ pc = "load_cont"
    /\ LET a == RemoteReply(remote, snapshot_cmd(ContCmd(snap_data, idx)), 0)
       IN  LoadCont(a.reply) /\ remote' = a.next
    /\ UNCHANGED <<disk, hist>>

RTLoadDone ==
    /\ pc = "load_done"
    /\ LET a == RemoteReply(remote, snapshot_cmd(DoneCmd(argv)), 0)
       IN  LoadDone(a.reply) /\ remote' = a.next
    /\ UNCHANGED <<disk, hist>>

RTInfo ==
    /\ SnapshotInfo(RemoteReply(remote, snapshot_cmd(S_info), 0).reply)
    /\ Free

\* back at the prompt; the history keeps the catalog of the last info query
\* until a create, delete or restore, and whether a load came after it
RTPrompt ==
    /\ Prompt
    /\ hist' =
         IF op = "info" /\ outcome = Returned
         THEN [seen |-> <<get_snapshots_info(recv[1]).val>>, loaded |-> FALSE, free |-> FALSE]
         ELSE IF op \in {"create", "delete", "restore"}
         THEN [seen |-> <<>>, loaded |-> FALSE, free |-> FALSE]
         ELSE [seen |-> hist.seen,
               loaded |-> hist.loaded \/ (op = "load" /\ hist.seen # <<>>),
               free |-> FALSE]
    /\ UNCHANGED <<remote, disk>>

NextRT ==
    \/ \E n \in RT_Names : RTCreate(<<n>>)
    \/ \E n \in RT_Names : RTRestoreBegin(<<n>>)
    \/ RTRestoreSend
    \/ \E n \in RT_Names : RTSaveBegin(<<n>>)
    \/ \E o \in BOOLEAN : RTSaveSend(o)
    \/ \E n \in RT_Names : RTLoadBegin(<<PathOf(n), N_t>>)
    \/ RTLoadCont
    \/ RTLoadDone
    \/ RTInfo
    \/ RTPrompt

SpecRT == Init /\ [][NextRT]_vars

---------------------------------------------------------------------------
(* Round trip and repeated catalog queries, against the remote side.       *)

\* C16: when a load of a file written by a successful 'snapshot save <name>'
\* ends, and its transport name was free, the load has succeeded, the remote
\* side answered with the transport name, and its catalog holds that name
\* with the offset the saved snapshot had.
C16_RoundTrip ==
    ( /\ op = "load" /\ pc = "returned" /\ hist.free
      /\ DictHas(disk, argv[1]) /\ Lookup(disk, argv[1]).origin # <<>> )
    => /\ outcome = Returned
       /\ LastRecv = argv[2]
       /\ DictHas(remote.snaps, argv[2])
       /\ Lookup(remote.snaps, argv[2]) = Lookup(disk, argv[1]).origin[1]

\* the second of two snapshots went to a file and came back under name t
C16_Witness ==
    /\ op = "load" /\ pc = "returned" /\ outcome = Returned /\ hist.free
    /\ Len(sent) = 3
    /\ DictHas(remote.snaps, N_t) /\ Lookup(remote.snaps, N_t) = 47

\* a catalog as a mapping: its set of name-offset pairs
Mapping(d) == {d[j] : j \in 1..Len(d)}

\* an info query sends the one command 'info' and shows the snapshots the
\* remote side holds at that moment
InfoFresh ==
    /\ Len(sent) = 1 /\ Wire(sent[1]) = V_info
    /\ outcome = Returned
    /\ out = InfoTable(remote.snaps)

\* C17 as stated: an info query sends only 'info' and shows the current
\* catalog, and after an earlier info query with no create, delete or restore
\* in between it returns the mapping that query returned.
C17_Original ==
    (op = "info" /\ pc = "returned") =>
        /\ InfoFresh
        /\ hist.seen # <<>> =>
               Mapping(get_snapshots_info(recv[1]).val) = Mapping(hist.seen[1])

\* C17 amended: an info query sends only 'info' and shows the current
\* catalog, and after an earlier info query with no create, delete, restore
\* or load in between it returns the mapping that query returned.
C17_InfoIdempotent ==
    (op = "info" /\ pc = "returned") =>
        /\ InfoFresh
        /\ (hist.seen # <<>> /\ ~hist.loaded) =>
               Mapping(get_snapshots_info(recv[1]).val) = Mapping(hist.seen[1])

\* a second info query on a catalog of two snapshots, no load in between
C17_Witness ==
    /\ op = "info" /\ pc = "returned"
    /\ hist.seen # <<>> /\ ~hist.loaded
    /\ Len(hist.seen[1]) = 2

====
